---- MODULE Spec2Model ----
(***************************************************************************)
(* A model of pdfgrepui (EasyFind): the on-disk cache (cache.py), the      *)
(* match indexer (indexer.py), candidate discovery (search.py), the page   *)
(* renderer (renderer.py) and the navigation handlers of PdfGrepApp        *)
(* (app.py).                                                               *)
(*                                                                         *)
(* Texts are sequences of one-character strings; paths are sequences of    *)
(* code points, so that sorted() has something to compare.  Only literal   *)
(* mode (regex = False) is modelled; the regex branch of _find_matches     *)
(* delegates to the re library.                                            *)
(***************************************************************************)
EXTENDS Integers, Sequences, FiniteSets, TLC

VARIABLES
    fm,                  \* the frame of one _find_matches call
    pdfs,                \* the documents on disk: path -> [mtime, pages]
    metaFiles,           \* ~/.cache/pdfgrepui/meta/<key>.json per document
    textFiles,           \* <key>/texts/page_<N>.txt per document
    renderFiles,         \* the file names present in <key>/renders per document
    install,             \* the installed tools and PDFGREPUI_RENDERER
    documents,           \* PdfGrepApp.documents
    matches,             \* PdfGrepApp.matches (the flat match list)
    current_match_index, \* PdfGrepApp.current_match_index
    current_pdf_index,   \* PdfGrepApp.current_pdf_index
    current_page,        \* PdfGrepApp.current_page
    status,              \* the text of the status widget
    preview,             \* what the preview pane shows
    phase,               \* where the process is: "init", "ready", "failed", "hung"
    obs                  \* what the last call did (tool invocations, requests, result)

vars == <<fm, pdfs, metaFiles, textFiles, renderFiles, install, documents, matches,
          current_match_index, current_pdf_index, current_page, status,
          preview, phase, obs>>

appVars == <<documents, matches, current_match_index, current_pdf_index,
             current_page, status, preview, phase>>

diskVars == <<pdfs, metaFiles, textFiles, renderFiles, install>>

(***************************************************************************)
(* Bounds of the model.                                                    *)
(***************************************************************************)
MaxLen == 4        \* longest page text given to _find_matches on its own
MaxNeedle == 2     \* longest query given to _find_matches on its own
MaxScan == 6       \* iterations of the scanning loop that are followed

\* An optional value is a sequence of at most one element.
None == <<>>       \* Python's None, a key that is not in a dict
Absent == <<>>     \* a file that does not exist
Some(v) == <<v>>   \* a value that is there; a file with these contents

Alphabet == {"a", "A", "b"}

SeqsUpTo(S, n) == UNION {[1..k -> S] : k \in 0..n}

\* F(v), with v evaluated once
Strictly(v, F(_)) == CHOOSE y \in {F(x) : x \in {v}} : TRUE

(***************************************************************************)
(* indexer.py: _find_matches, literal mode.                                *)
(***************************************************************************)
\* str.lower() on one character of the alphabet
Lower(c) == IF c = "A" THEN "a" ELSE c

LowerText(s) == [i \in 1..Len(s) |-> Lower(s[i])]

\* lowered[i : i + len(needle)] == needle, i 0-based
MatchesAt(lowered, needle, i) ==
    /\ i >= 0
    /\ i + Len(needle) <= Len(lowered)
    /\ \A k \in 1..Len(needle) : lowered[i + k] = needle[k]

\* str.find(needle, start): the least index >= start where needle occurs, else -1
Find(lowered, needle, start) ==
    LET hits == {i \in start..Len(lowered) : MatchesAt(lowered, needle, i)}
    IN  IF hits = {} THEN -1
        ELSE CHOOSE i \in hits : \A j \in hits : i <= j

\* start = idx + len(needle)
ResumeOverlapping(idx, needle) == idx + 1
Resume(idx, needle) == idx + Len(needle)

\* one iteration of the while True loop
FindStep ==
    /\ fm.pc = "loop"
    /\ Len(fm.matches) < MaxScan
    /\ LET idx == Find(LowerText(fm.text), LowerText(fm.needle), fm.start)
       IN  IF idx = -1
           THEN fm' = [fm EXCEPT !.pc = "done"]
           ELSE fm' = [fm EXCEPT
                         !.matches = Append(@, <<idx, idx + Len(fm.needle)>>),
                         !.start = Resume(idx, fm.needle)]
    /\ UNCHANGED <<diskVars, appVars, obs>>

\* the whole loop as a function; the loop does not end on the empty needle,
\* so the callers below ask Diverges first
RECURSIVE ScanFrom(_, _, _)
ScanFrom(lowered, needle, start) ==
    LET idx == Find(lowered, needle, start)
    IN  IF idx = -1 THEN <<>>
        ELSE <<<<idx, idx + Len(needle)>>>>
             \o ScanFrom(lowered, needle, Resume(idx, needle))

Diverges(text, query) == Len(query) = 0

FindMatches(text, query) == ScanFrom(LowerText(text), LowerText(query), 0)

(***************************************************************************)
(* Paths and documents.  A path is the sequence of the code points of its  *)
(* file name (both files lie in the one root directory).                   *)
(***************************************************************************)
NotesPdf == <<110, 111, 116, 101, 115, 46, 112, 100, 102>>        \* notes.pdf
ReportPdf == <<114, 101, 112, 111, 114, 116, 46, 112, 100, 102>>  \* report.pdf

\* page texts of the documents the model puts on disk
PagesA == << <<"b">>, <<"a">>, <<"b">> >>
PagesB == << <<"a", "a">> >>
PagesC == << <<"b", "A">>, <<>>, <<"a", "b", "a">> >>
PagesD == << <<"b">> >>
PagesE == << <<"b">>, <<"b", "a">> >>

DocCatalog == {PagesA, PagesB, PagesC, PagesD, PagesE}

(***************************************************************************)
(* cache.py                                                                *)
(***************************************************************************)
\* the metadata dict; a key that is not in the dict is None here
Meta(mt, pc, rp) == [mtime |-> mt, page_count |-> pc, rendered_pages |-> rp]
EmptyMeta == Meta(None, None, None)

\* a meta file that does not hold a metadata dict: text that is not JSON (a
\* truncated write), JSON that is not an object (a non-empty list, a number),
\* or bytes that cannot be read or decoded as UTF-8
CorruptKinds == {"invalid_json", "non_object", "unreadable"}
Corrupt(kind) == [corrupt |-> kind]

\* load_meta raises: read_text fails with an OSError or a UnicodeDecodeError,
\* neither of which is a json.JSONDecodeError
LoadMetaRaises(file) == file = Some(Corrupt("unreadable"))

\* load_meta; JSON that is not an object is returned as it is
load_meta(file) ==
    IF file = Absent THEN EmptyMeta
    ELSE IF file[1] = Corrupt("invalid_json") THEN EmptyMeta
    ELSE file[1]

\* is_cache_valid raises: meta.get on a value that is not a dict
IsCacheValidRaises(meta) == meta = Corrupt("non_object")

is_cache_valid(meta, path) ==
    IF meta = EmptyMeta THEN FALSE
    ELSE IF path \notin DOMAIN pdfs THEN FALSE
    ELSE meta.mtime = Some(pdfs[path].mtime)

(***************************************************************************)
(* models.py                                                               *)
(***************************************************************************)
SearchMatch(path, page, index, context) ==
    [pdf_path |-> path, page_number |-> page, match_index |-> index, context |-> context]

PdfDoc(path, count, ms) == [path |-> path, page_count |-> count, matches |-> ms]

(***************************************************************************)
(* indexer.py                                                              *)
(***************************************************************************)
Radius == 80

Max(a, b) == IF a >= b THEN a ELSE b
Min(a, b) == IF a <= b THEN a ELSE b

IsSpace(c) == c \in {" ", "\n", "\t"}

RECURSIVE Strip(_)
Strip(s) ==
    IF s = <<>> THEN s
    ELSE IF IsSpace(Head(s)) THEN Strip(Tail(s))
    ELSE IF IsSpace(s[Len(s)]) THEN Strip(SubSeq(s, 1, Len(s) - 1))
    ELSE s

\* text[left:right].strip().replace("\n", " ")
ContextSnippet(text, start, end) ==
    LET left == Max(start - Radius, 0)
        right == Min(end + Radius, Len(text))
        cut == Strip(SubSeq(text, left + 1, right))
    IN  [i \in 1..Len(cut) |-> IF cut[i] = "\n" THEN " " ELSE cut[i]]

\* pdfinfo: the "Pages:" line of the document as it is now
CountPages(path) == Len(pdfs[path].pages)

\* the outcomes of the external tools during one index_pdf call:
\* pdfinfo fails or not, and the page (0: none) on which pdftotext fails
ToolEnvs(maxPage) == [pdfinfoFails : BOOLEAN, failPage : 0..maxPage]
ToolsWork == [pdfinfoFails |-> FALSE, failPage |-> 0]

\* _extract_page_text without the cache_path.exists() test: pdftotext runs
\* on every call
ExtractPageTextNoCache(path, page, cache, env) ==
    IF env.failPage = page \/ page > Len(pdfs[path].pages)
    THEN [ok |-> FALSE, text |-> <<>>, cache |-> cache, invoked |-> TRUE]
    ELSE [ok |-> TRUE, text |-> pdfs[path].pages[page],
          cache |-> (page :> pdfs[path].pages[page]) @@ cache, invoked |-> TRUE]

\* _extract_page_text; cache is the texts directory, page -> contents
ExtractPageText(path, page, cache, env) ==
    IF page \in DOMAIN cache
    THEN [ok |-> TRUE, text |-> cache[page], cache |-> cache, invoked |-> FALSE]
    ELSE IF env.failPage = page \/ page > Len(pdfs[path].pages)
    THEN [ok |-> FALSE, text |-> <<>>, cache |-> cache, invoked |-> TRUE]
    ELSE [ok |-> TRUE, text |-> pdfs[path].pages[page],
          cache |-> (page :> pdfs[path].pages[page]) @@ cache, invoked |-> TRUE]

\* match_index += 1, for the k-th match of a page
OrdinalPerPage(match_index, k) == k
Ordinal(match_index, k) == match_index + k

\* the page after `page` in range(1, page_count + 1)
PageAfter(page) == page + 1

\* the body of the for loop of index_pdf for one page, x being what
\* _extract_page_text did; s carries the locals and the texts directory
ScanPage(path, query, page, s, x) ==
    LET t == [s EXCEPT !.texts = x.cache,
                       !.requested = Append(@, page),
                       !.invoked = IF x.invoked THEN Append(@, page) ELSE @]
    IN  IF ~x.ok THEN [t EXCEPT !.outcome = "error_pdftotext"]
        ELSE IF Diverges(x.text, query)
        THEN [t EXCEPT !.outcome = "hang", !.scanned = Append(@, x.text)]
        ELSE Strictly(FindMatches(x.text, query), LAMBDA hits :
               [t EXCEPT
                  !.matches = @ \o [k \in 1..Len(hits) |->
                                      SearchMatch(path, page, Ordinal(s.match_index, k),
                                        ContextSnippet(x.text, hits[k][1], hits[k][2]))],
                  !.match_index = @ + Len(hits),
                  !.scanned = Append(@, x.text),
                  !.found = @ \o [k \in 1..Len(hits) |-> <<page, hits[k][1]>>]])

\* the for loop of index_pdf from `page` on
RECURSIVE IndexPages(_, _, _, _, _, _)
IndexPages(path, query, page, page_count, s, env) ==
    IF page > page_count THEN [s EXCEPT !.outcome = "ok"]
    ELSE Strictly(ExtractPageText(path, page, s.texts, env), LAMBDA x :
         Strictly(ScanPage(path, query, page, s, x), LAMBDA t :
           IF t.outcome # "running" THEN t
           ELSE IndexPages(path, query, PageAfter(page), page_count, t, env)))

\* index_pdf(pdf_path, query, regex = False) on the meta file and the texts
\* directory of the document; the result carries what the call left on disk
IndexPdf(path, query, metaFile, texts, env) ==
    LET loaded == load_meta(metaFile)
        valid == is_cache_valid(loaded, path)
        meta == IF valid THEN loaded
                ELSE Meta(Some(pdfs[path].mtime), Some(CountPages(path)), None)
        page_count == IF meta.page_count = None THEN 0 ELSE meta.page_count[1]
        s0 == [texts |-> texts, matches |-> <<>>, match_index |-> 0,
               requested |-> <<>>, invoked |-> <<>>, scanned |-> <<>>,
               found |-> <<>>, outcome |-> "running"]
        base == [path |-> path, query |-> query, loaded |-> loaded,
                 rebuilt |-> ~valid, textsBefore |-> texts, metaBefore |-> metaFile]
    IN  IF LoadMetaRaises(metaFile) \/ IsCacheValidRaises(loaded)
        THEN [path |-> path, query |-> query, loaded |-> loaded, rebuilt |-> FALSE,
              textsBefore |-> texts, metaBefore |-> metaFile]
             @@ [s0 EXCEPT !.outcome = "error_meta"]
             @@ [meta |-> metaFile, doc |-> None]
        ELSE IF ~valid /\ env.pdfinfoFails
        THEN base @@ [s0 EXCEPT !.outcome = "error_pdfinfo"]
                  @@ [meta |-> metaFile, doc |-> None]
        ELSE Strictly(IndexPages(path, query, 1, page_count, s0, env), LAMBDA s :
               base @@ s @@
                 [meta |-> IF valid THEN metaFile ELSE Some(meta),
                  doc |-> IF s.outcome = "ok"
                          THEN Some(PdfDoc(path, page_count, s.matches)) ELSE None])

(***************************************************************************)
(* renderer.py                                                             *)
(***************************************************************************)
MaxPad == 2        \* pdftoppm zero-pads page numbers to 1..MaxPad digits
MaxRendered == 3   \* longest rendered_pages list that is followed

\* the digits of str(n)
NaturalWidth(n) == IF n < 10 THEN 1 ELSE 2

\* a file of the renders directory: page<sep><num printed in width digits>.png
RenderFile(sep, num, width) == [sep |-> sep, num |-> num, width |-> width]

\* render_dir / f"page_{page_number}.png"
CanonicalPng(page) == RenderFile("_", page, NaturalWidth(page))

\* render_dir / f"page-{page_number}.png", where the code looks for the output
ExpectedOutput(page) == RenderFile("-", page, NaturalWidth(page))

\* the file pdftoppm writes for the page when it pads to `pad` digits
ToolOutput(page, pad) == RenderFile("-", page, Max(pad, NaturalWidth(page)))

\* what a run of the process finds installed: the digits pdftoppm pads page
\* numbers to, PDFGREPUI_RENDERER, and whether wezterm and chafa are on PATH
Installs ==
    [pad : 1..MaxPad, override : {"", "wezterm", "chafa"},
     wezAvail : BOOLEAN, chafaAvail : BOOLEAN]

\* pdftoppm pads to one digit, no override, both backends installed
PlainInstall == [pad |-> 1, override |-> "", wezAvail |-> TRUE, chafaAvail |-> TRUE]

\* the outcomes of the external tools during one render_page call: whether
\* the run of pdftoppm, of wezterm, of chafa fails
RenderEnvs == [rasterFails : BOOLEAN, wezFails : BOOLEAN, chafaFails : BOOLEAN]
RenderWorks == [rasterFails |-> FALSE, wezFails |-> FALSE, chafaFails |-> FALSE]

\* _render_page_png on the renders directory and the meta file of the document
RenderPagePng(path, page, files, metaFile, env) ==
    LET png == CanonicalPng(page)
        written == files \cup {ToolOutput(page, install.pad)}
        renamed == IF ExpectedOutput(page) \in written
                   THEN (written \ {ExpectedOutput(page)}) \cup {png}
                   ELSE written
        meta == load_meta(metaFile)
        listed == IF meta.rendered_pages = None THEN <<>> ELSE meta.rendered_pages[1]
    IN  IF png \in files
        THEN [ok |-> TRUE, png |-> Some(png), files |-> files, meta |-> metaFile,
              invoked |-> FALSE]
        ELSE IF env.rasterFails
        THEN [ok |-> FALSE, png |-> None, files |-> files, meta |-> metaFile,
              invoked |-> TRUE]
        ELSE [ok |-> TRUE, png |-> Some(png), files |-> renamed,
              meta |-> Some([meta EXCEPT !.rendered_pages = Some(Append(listed, page))]),
              invoked |-> TRUE]

\* _render_with_wezterm / _render_with_chafa: "ok", "missing" (the program is
\* not installed: subprocess.run raises FileNotFoundError) or "failed"
\* (RuntimeError); a backend given a file that does not exist fails
RunBackend(installed, fails, pngExists) ==
    IF ~installed THEN "missing"
    ELSE IF fails \/ ~pngExists THEN "failed"
    ELSE "ok"

\* render_page without the try/except around _render_with_wezterm: a failure
\* of wezterm ends the request
SelectBackendNoFallback(env, pngExists) ==
    LET wez == RunBackend(install.wezAvail, env.wezFails, pngExists)
        chafa == RunBackend(install.chafaAvail, env.chafaFails, pngExists)
    IN  IF install.override = "wezterm"
        THEN [tried |-> <<"wezterm">>, wez |-> wez, chafa |-> "",
              result |-> IF wez = "ok" THEN "ok" ELSE "wezterm " \o wez]
        ELSE IF install.override = "chafa"
        THEN [tried |-> <<"chafa">>, wez |-> "", chafa |-> chafa,
              result |-> IF chafa = "ok" THEN "ok" ELSE "chafa " \o chafa]
        ELSE IF install.wezAvail
        THEN [tried |-> <<"wezterm">>, wez |-> wez, chafa |-> "",
              result |-> IF wez = "ok" THEN "ok" ELSE "wezterm " \o wez]
        ELSE IF install.chafaAvail
        THEN [tried |-> <<"chafa">>, wez |-> "", chafa |-> chafa,
              result |-> IF chafa = "ok" THEN "ok" ELSE "chafa " \o chafa]
        ELSE [tried |-> <<>>, wez |-> "", chafa |-> "",
              result |-> "No renderer available"]

\* the backend selection of render_page, after _render_page_png returned:
\* the backends run in order, the outcome of each run ("" when it did not
\* run) and what the request ends with
SelectBackend(env, pngExists) ==
    LET wez == RunBackend(install.wezAvail, env.wezFails, pngExists)
        chafa == RunBackend(install.chafaAvail, env.chafaFails, pngExists)
    IN  IF install.override = "wezterm"
        THEN [tried |-> <<"wezterm">>, wez |-> wez, chafa |-> "",
              result |-> IF wez = "ok" THEN "ok" ELSE "wezterm " \o wez]
        ELSE IF install.override = "chafa"
        THEN [tried |-> <<"chafa">>, wez |-> "", chafa |-> chafa,
              result |-> IF chafa = "ok" THEN "ok" ELSE "chafa " \o chafa]
        ELSE IF install.wezAvail /\ wez = "ok"
        THEN [tried |-> <<"wezterm">>, wez |-> wez, chafa |-> "", result |-> "ok"]
        ELSE IF install.chafaAvail
        THEN [tried |-> IF install.wezAvail THEN <<"wezterm", "chafa">> ELSE <<"chafa">>,
              wez |-> IF install.wezAvail THEN wez ELSE "", chafa |-> chafa,
              result |-> IF chafa = "ok" THEN "ok" ELSE "chafa " \o chafa]
        ELSE [tried |-> IF install.wezAvail THEN <<"wezterm">> ELSE <<>>,
              wez |-> IF install.wezAvail THEN wez ELSE "", chafa |-> "",
              result |-> "No renderer available"]

\* render_page(pdf_path, page_number)
RenderPage(path, page, files, metaFile, env) ==
    LET r == RenderPagePng(path, page, files, metaFile, env)
        b == SelectBackend(env, r.png # None /\ r.png[1] \in r.files)
    IN  [path |-> path, page |-> page, files |-> r.files, meta |-> r.meta,
         invoked |-> r.invoked, png |-> r.png, rastered |-> r.ok,
         tried |-> IF r.ok THEN b.tried ELSE <<>>,
         wez |-> IF r.ok THEN b.wez ELSE "",
         chafa |-> IF r.ok THEN b.chafa ELSE "",
         result |-> IF r.ok THEN b.result ELSE "pdftoppm failed"]

\* the page number re.compile(r"page-(\d+)\\.png$") finds in a file name of
\* the renders directory: in a raw string \\ is an escaped backslash and the
\* dot that follows stands for any character, so a name matches only if it
\* holds a backslash before its last four characters; no name pdftoppm
\* writes does
PatternPage(file) == None

\* sorted(set(pages)) for a list of page numbers
RECURSIVE SortedSet(_)
SortedSet(pages) ==
    IF pages = {} THEN <<>>
    ELSE LET least == CHOOSE p \in pages : \A q \in pages : p <= q
         IN  <<least>> \o SortedSet(pages \ {least})

\* ensure_render_cache(pdf_path, page_count)
EnsureRenderCache(path, page_count, files, metaFile, env) ==
    LET expected == {CanonicalPng(n) : n \in 1..page_count}
        written == files \cup {ToolOutput(n, install.pad) : n \in 1..page_count}
        generated == {f \in written : f.sep = "-"}
        matched == {f \in generated : PatternPage(f) # None}
        unlinked == {f \in matched : CanonicalPng(PatternPage(f)[1]) \in written}
        renamed == {CanonicalPng(PatternPage(f)[1]) : f \in matched}
        rendered_pages == {PatternPage(f)[1] : f \in matched}
        meta == load_meta(metaFile)
        listed == IF meta.rendered_pages = None THEN {}
                  ELSE {meta.rendered_pages[1][i] : i \in DOMAIN meta.rendered_pages[1]}
    IN  IF expected \subseteq files
        THEN [ok |-> TRUE, files |-> files, meta |-> metaFile, invoked |-> FALSE]
        ELSE IF env.rasterFails
        THEN [ok |-> FALSE, files |-> files, meta |-> metaFile, invoked |-> TRUE]
        ELSE [ok |-> TRUE, files |-> (written \ matched) \cup renamed,
              meta |-> Some([meta EXCEPT !.rendered_pages =
                               Some(SortedSet(listed \cup rendered_pages))]),
              invoked |-> TRUE]

(***************************************************************************)
(* search.py                                                               *)
(***************************************************************************)
\* Path.__lt__ for two files of one directory: the names compared code point
\* by code point, a proper prefix first
RECURSIVE PathLess(_, _)
PathLess(p, q) ==
    IF q = <<>> THEN FALSE
    ELSE IF p = <<>> THEN TRUE
    ELSE IF Head(p) # Head(q) THEN Head(p) < Head(q)
    ELSE PathLess(Tail(p), Tail(q))

\* sorted(paths)
SortedUnsorted(paths) == paths
RECURSIVE Sorted(_)
Sorted(paths) ==
    IF paths = <<>> THEN <<>>
    ELSE LET least == CHOOSE i \in 1..Len(paths) :
                         \A j \in 1..Len(paths) :
                            /\ ~PathLess(paths[j], paths[i])
                            /\ (paths[j] = paths[i] => i <= j)
             rest == [k \in 1..(Len(paths) - 1) |->
                        IF k < least THEN paths[k] ELSE paths[k + 1]]
         IN  <<paths[least]>> \o Sorted(rest)

\* what rga may print for a root directory: any of its PDF files, each at
\* most once, in any order (rga searches in parallel)
RgaOutputs(files) ==
    {out \in SeqsUpTo(files, Cardinality(files)) :
        \A i, j \in 1..Len(out) : i # j => out[i] # out[j]}

\* find_candidate_pdfs, given rga's stdout
FindCandidatePdfs(stdout) == Sorted(stdout)

(***************************************************************************)
(* app.py: indexing                                                        *)
(***************************************************************************)
\* one turn of the loop with a failing document skipped instead of ending
\* the pass
AfterIndexPdfIsolating(acc, path, r) ==
    LET disk == [acc EXCEPT !.metas[path] = r.meta, !.texts[path] = r.texts]
    IN  IF r.outcome = "hang" THEN [disk EXCEPT !.outcome = r.outcome]
        ELSE IF r.outcome # "ok" THEN disk
        ELSE [disk EXCEPT
                !.indexed = Append(@, r.doc[1]),
                !.documents = IF r.doc[1].matches # <<>>
                              THEN Append(@, r.doc[1]) ELSE @,
                !.matches = IF r.doc[1].matches # <<>>
                            THEN @ \o r.doc[1].matches ELSE @]

\* one turn of the loop, r being what index_pdf returned for `path`; acc
\* carries the two lists and the cache files
AfterIndexPdfKeepAll(acc, path, r) ==
    LET disk == [acc EXCEPT !.metas[path] = r.meta, !.texts[path] = r.texts]
    IN  IF r.outcome # "ok" THEN [disk EXCEPT !.outcome = r.outcome]
        ELSE [disk EXCEPT
                !.indexed = Append(@, r.doc[1]),
                !.documents = Append(@, r.doc[1]),
                !.matches = @ \o r.doc[1].matches]
AfterIndexPdf(acc, path, r) ==
    LET disk == [acc EXCEPT !.metas[path] = r.meta, !.texts[path] = r.texts]
    IN  IF r.outcome # "ok" THEN [disk EXCEPT !.outcome = r.outcome]
        ELSE [disk EXCEPT
                !.indexed = Append(@, r.doc[1]),
                !.documents = IF r.doc[1].matches # <<>>
                              THEN Append(@, r.doc[1]) ELSE @,
                !.matches = IF r.doc[1].matches # <<>>
                            THEN @ \o r.doc[1].matches ELSE @]

\* the loop of _index_documents from candidate i on; failing names the one
\* document whose tools fail and how
RECURSIVE IndexDocuments(_, _, _, _, _)
IndexDocuments(candidates, i, query, acc, failing) ==
    IF i > Len(candidates) THEN [acc EXCEPT !.outcome = "ok"]
    ELSE Strictly(IndexPdf(candidates[i], query, acc.metas[candidates[i]],
                           acc.texts[candidates[i]],
                           IF failing.path = Some(candidates[i])
                           THEN failing.env ELSE ToolsWork),
                  LAMBDA r :
         Strictly(AfterIndexPdf(acc, candidates[i], r), LAMBDA next :
           IF next.outcome # "running" THEN next
           ELSE IndexDocuments(candidates, i + 1, query, next, failing)))

(***************************************************************************)
(* app.py: navigation                                                      *)
(***************************************************************************)
\* the three fields of the navigation state
Position(m, d, p) == [match |-> m, doc |-> d, page |-> p]

\* list.index(x): the first 0-based index whose element equals x
ListIndex(list, x) ==
    (CHOOSE i \in 1..Len(list) : list[i] = x /\ \A j \in 1..(i - 1) : list[j] # x) - 1

\* _doc_index_for_match ending in `return idx or None`: index 0 is lost
DocIndexForMatchFalsyZero(docs, match) ==
    LET hits == {i \in 2..Len(docs) : docs[i].path = match.pdf_path}
    IN  IF hits = {} THEN None
        ELSE Some((CHOOSE i \in hits : \A j \in hits : i <= j) - 1)

\* _doc_index_for_match
DocIndexForMatch(docs, match) ==
    LET hits == {i \in 1..Len(docs) : docs[i].path = match.pdf_path}
    IN  IF hits = {} THEN None
        ELSE Some((CHOOSE i \in hits : \A j \in hits : i <= j) - 1)

\* _match_position_in_doc giving the position in self.matches
MatchPositionInDocFlat(doc, ms, cmi) ==
    IF cmi = None THEN 0 ELSE cmi[1] + 1

\* _match_position_in_doc
MatchPositionInDoc(doc, ms, cmi) ==
    IF cmi = None THEN 0
    ELSE LET match == ms[cmi[1] + 1]
             hits == {i \in 1..Len(doc.matches) : doc.matches[i] = match}
         IN  IF match.pdf_path # doc.path THEN 0
             ELSE IF hits = {} THEN 0
             ELSE CHOOSE i \in hits : \A j \in hits : i <= j

\* the text _update_status gives the status widget (without the focus part)
StatusText(docs, ms, pos) ==
    IF docs = <<>> \/ pos.doc = None THEN [kind |-> "No results"]
    ELSE LET doc == docs[pos.doc[1] + 1]
             count == Len(doc.matches)
         IN  [kind |-> "position",
              name |-> doc.path,
              page |-> IF pos.page = None THEN 0 ELSE pos.page[1],
              page_count |-> doc.page_count,
              match_position |-> IF count = 0 THEN 0
                                 ELSE MatchPositionInDoc(doc, ms, pos.match),
              match_count |-> count]

\* _render_current_page on the position pos: what it leaves on disk and in
\* the preview pane, and the render request it made, if any
RenderCurrentPage(docs, pos, files, metas, shown, env) ==
    IF pos.doc = None \/ pos.page = None
    THEN [files |-> files, metas |-> metas, preview |-> shown, request |-> None]
    ELSE LET path == docs[pos.doc[1] + 1].path
             r == RenderPage(path, pos.page[1], files[path], metas[path], env)
         IN  [files |-> [files EXCEPT ![path] = r.files],
              metas |-> [metas EXCEPT ![path] = r.meta],
              preview |-> IF r.result = "ok" THEN "image"
                          ELSE "Render failed: " \o r.result,
              request |-> Some([path |-> path, page |-> pos.page[1],
                                invoked |-> r.invoked, result |-> r.result])]

\* _jump_to_match: the position it leaves, None when it returns at once
JumpTargetClamped(docs, ms, match_index) ==
    IF ms = <<>> THEN None
    ELSE LET i == Max(0, Min(match_index, Len(ms) - 1))
         IN  Some(Position(Some(i), DocIndexForMatch(docs, ms[i + 1]),
                           Some(ms[i + 1].page_number)))
JumpTarget(docs, ms, match_index) ==
    IF match_index < 0 \/ match_index >= Len(ms) THEN None
    ELSE Some(Position(Some(match_index), DocIndexForMatch(docs, ms[match_index + 1]),
                       Some(ms[match_index + 1].page_number)))

\* _jump_to_doc_start that sets the page of the first match and leaves
\* current_match_index as it was
JumpToDocStartPageOnly(ms, doc, pos) ==
    IF doc.matches # <<>>
    THEN [pos EXCEPT !.page = Some(doc.matches[1].page_number)]
    ELSE [pos EXCEPT !.page = Some(1)]

\* _jump_to_doc_start on the position whose document index was just moved
JumpToDocStart(ms, doc, pos) ==
    IF doc.matches # <<>>
    THEN [pos EXCEPT !.match = Some(ListIndex(ms, doc.matches[1])),
                     !.page = Some(doc.matches[1].page_number)]
    ELSE [pos EXCEPT !.page = Some(1)]

\* _jump_to_doc_end
JumpToDocEnd(ms, doc, pos) ==
    IF doc.matches # <<>>
    THEN [pos EXCEPT !.match = Some(ListIndex(ms, doc.matches[Len(doc.matches)])),
                     !.page = Some(doc.matches[Len(doc.matches)].page_number)]
    ELSE [pos EXCEPT !.page = Some(doc.page_count)]

\* _next_match: the index it passes to _jump_to_match, None when it returns
NextMatchTargetWrapping(ms, pos) ==
    IF pos.match = None THEN None
    ELSE IF pos.match[1] >= Len(ms) - 1 THEN Some(0)
    ELSE Some(pos.match[1] + 1)
NextMatchTarget(ms, pos) ==
    IF pos.match = None THEN None
    ELSE IF pos.match[1] >= Len(ms) - 1 THEN None
    ELSE Some(pos.match[1] + 1)

\* _previous_match
PreviousMatchTarget(ms, pos) ==
    IF pos.match = None THEN None
    ELSE IF pos.match[1] <= 0 THEN None
    ELSE Some(pos.match[1] - 1)

\* _next_page: the position it leaves, None when it changes nothing
NextPageTargetFirstPage(docs, ms, pos) ==
    IF pos.doc = None \/ pos.page = None THEN None
    ELSE IF pos.page[1] < docs[pos.doc[1] + 1].page_count
    THEN Some([pos EXCEPT !.page = Some(pos.page[1] + 1)])
    ELSE IF pos.doc[1] < Len(docs) - 1
    THEN Some([pos EXCEPT !.doc = Some(pos.doc[1] + 1), !.page = Some(1)])
    ELSE None
NextPageTarget(docs, ms, pos) ==
    IF pos.doc = None \/ pos.page = None THEN None
    ELSE IF pos.page[1] < docs[pos.doc[1] + 1].page_count
    THEN Some([pos EXCEPT !.page = Some(pos.page[1] + 1)])
    ELSE IF pos.doc[1] < Len(docs) - 1
    THEN Some(JumpToDocStart(ms, docs[pos.doc[1] + 2],
                             [pos EXCEPT !.doc = Some(pos.doc[1] + 1)]))
    ELSE None

\* _previous_page
PreviousPageTargetLastPage(docs, ms, pos) ==
    IF pos.doc = None \/ pos.page = None THEN None
    ELSE IF pos.page[1] > 1
    THEN Some([pos EXCEPT !.page = Some(pos.page[1] - 1)])
    ELSE IF pos.doc[1] > 0
    THEN Some([pos EXCEPT !.doc = Some(pos.doc[1] - 1),
                          !.page = Some(docs[pos.doc[1]].page_count)])
    ELSE None
PreviousPageTarget(docs, ms, pos) ==
    IF pos.doc = None \/ pos.page = None THEN None
    ELSE IF pos.page[1] > 1
    THEN Some([pos EXCEPT !.page = Some(pos.page[1] - 1)])
    ELSE IF pos.doc[1] > 0
    THEN Some(JumpToDocEnd(ms, docs[pos.doc[1]],
                           [pos EXCEPT !.doc = Some(pos.doc[1] - 1)]))
    ELSE None

(***************************************************************************)
(* The state no call has touched yet.                                      *)
(***************************************************************************)
FmIdle == [text |-> <<>>, needle |-> <<>>, start |-> 0, matches |-> <<>>, pc |-> "idle"]

NoObs == [op |-> "none"]

AppInit ==
    /\ documents = <<>>
    /\ matches = <<>>
    /\ current_match_index = None
    /\ current_pdf_index = None
    /\ current_page = None
    /\ status = [kind |-> ""]
    /\ preview = ""
    /\ phase = "init"

DiskEmpty ==
    /\ pdfs = <<>>
    /\ metaFiles = <<>>
    /\ textFiles = <<>>
    /\ renderFiles = <<>>
    /\ install = PlainInstall

(***************************************************************************)
(* SpecFind: _find_matches on every text and query within the bounds.      *)
(***************************************************************************)
InitFind ==
    /\ \E t \in SeqsUpTo(Alphabet, MaxLen), q \in SeqsUpTo(Alphabet, MaxNeedle) :
          fm = [text |-> t, needle |-> q, start |-> 0, matches |-> <<>>, pc |-> "loop"]
    /\ DiskEmpty
    /\ AppInit
    /\ obs = NoObs

NextFind == FindStep

SpecFind == InitFind /\ [][NextFind]_vars

(***************************************************************************)
(* SpecIndex: index_pdf called again and again on one document, which      *)
(* changes on disk between the calls.                                      *)
(***************************************************************************)
MaxMtime == 3      \* the document is modified at most MaxMtime - 1 times

Queries == {<<"a">>, <<"b">>, <<>>}

MaxPages == 3      \* pdftotext may fail on any of the pages 1..MaxPages

InitIndex ==
    /\ \E pages \in DocCatalog : pdfs = (ReportPdf :> [mtime |-> 1, pages |-> pages])
    /\ metaFiles = (ReportPdf :> Absent)
    /\ textFiles = (ReportPdf :> <<>>)
    /\ renderFiles = (ReportPdf :> {})
    /\ install = PlainInstall
    /\ fm = FmIdle
    /\ AppInit
    /\ obs = NoObs

\* a call of index_pdf
IndexCall ==
    /\ \E path \in DOMAIN pdfs, query \in Queries, env \in ToolEnvs(MaxPages) :
          LET r == IndexPdf(path, query, metaFiles[path], textFiles[path], env)
          IN  /\ metaFiles' = [metaFiles EXCEPT ![path] = r.meta]
              /\ textFiles' = [textFiles EXCEPT ![path] = r.texts]
              /\ obs' = [op |-> "index_pdf"] @@ r
    /\ UNCHANGED <<pdfs, renderFiles, install, fm, appVars>>

\* the document is rewritten on disk: new contents, a later timestamp
ModifyDocument ==
    /\ \E path \in DOMAIN pdfs, pages \in DocCatalog :
          /\ pdfs[path].mtime < MaxMtime
          /\ pdfs' = [pdfs EXCEPT ![path] = [mtime |-> @.mtime + 1, pages |-> pages]]
    /\ obs' = [op |-> "modify"]
    /\ UNCHANGED <<metaFiles, textFiles, renderFiles, install, fm, appVars>>

\* the meta file of a document is left corrupt (save_meta writes in place,
\* and the cache directory is open to other programs)
CorruptMetaFile ==
    /\ \E path \in DOMAIN pdfs, kind \in CorruptKinds :
          /\ metaFiles[path] # Some(Corrupt(kind))
          /\ metaFiles' = [metaFiles EXCEPT ![path] = Some(Corrupt(kind))]
    /\ obs' = [op |-> "corrupt"]
    /\ UNCHANGED <<pdfs, textFiles, renderFiles, install, fm, appVars>>

NextIndex == IndexCall \/ ModifyDocument \/ CorruptMetaFile

SpecIndex == InitIndex /\ [][NextIndex]_vars

\* the last call was index_pdf and it returned a PdfDoc
IndexReturned == obs.op = "index_pdf" /\ obs.outcome = "ok"

\* C1 (as claimed): after index_pdf has returned for a document whose stored
\* freshness stamp differed from its timestamp, the metadata holds the current
\* timestamp and page count, and every page 1..pageCount was scanned with, and
\* is cached as, the text of the document as it is now.
C1_StaleRebuildsFromScratch ==
    (IndexReturned /\ obs.loaded.mtime # None
       /\ obs.loaded.mtime # Some(pdfs[obs.path].mtime)) =>
        /\ metaFiles[obs.path] =
              Some(Meta(Some(pdfs[obs.path].mtime), Some(CountPages(obs.path)), None))
        /\ Len(obs.scanned) = CountPages(obs.path)
        /\ \A p \in 1..CountPages(obs.path) :
              /\ obs.scanned[p] = pdfs[obs.path].pages[p]
              /\ p \in DOMAIN textFiles[obs.path]
              /\ textFiles[obs.path][p] = pdfs[obs.path].pages[p]

\* C8: when index_pdf returns for a document whose texts directory was empty,
\* it has asked for (and run pdftotext on) the pages 1..P in increasing order,
\* once each, and its M matches carry the ordinals 1..M in page-then-offset
\* order, the counter running on across pages.
C8_PagesInOrderOrdinalsDense ==
    (IndexReturned /\ obs.textsBefore = <<>>) =>
        LET P == obs.doc[1].page_count
            ms == obs.doc[1].matches
        IN  /\ obs.requested = [i \in 1..P |-> i]
            /\ obs.invoked = [i \in 1..P |-> i]
            /\ Len(obs.found) = Len(ms)
            /\ \A k \in 1..Len(ms) :
                  /\ ms[k].match_index = k
                  /\ ms[k].page_number = obs.found[k][1]
            /\ \A k \in 1..(Len(ms) - 1) :
                  \/ obs.found[k][1] < obs.found[k + 1][1]
                  \/ /\ obs.found[k][1] = obs.found[k + 1][1]
                     /\ obs.found[k][2] < obs.found[k + 1][2]

C8_Witness ==
    /\ IndexReturned
    /\ obs.textsBefore = <<>>
    /\ obs.doc[1].page_count = 3
    /\ Len(obs.doc[1].matches) = 3
    /\ obs.doc[1].matches[1].page_number = 1
    /\ obs.doc[1].matches[3].page_number = 3

(***************************************************************************)
(* SpecRender: _render_page_png and render_page called again and again on  *)
(* the pages of one document.                                              *)
(***************************************************************************)
InitRender ==
    /\ \E pages \in {PagesB, PagesE} :
          /\ pdfs = (ReportPdf :> [mtime |-> 1, pages |-> pages])
          /\ metaFiles \in {(ReportPdf :> Absent),
                            (ReportPdf :> Some(Meta(Some(1), Some(Len(pages)), None)))}
    /\ textFiles = (ReportPdf :> <<>>)
    /\ renderFiles = (ReportPdf :> {})
    /\ install \in Installs
    /\ fm = FmIdle
    /\ AppInit
    /\ obs = NoObs

\* pdftoppm is about to run and rendered_pages has room for one more entry
RenderedRoom(path, page) ==
    LET meta == load_meta(metaFiles[path])
    IN  IF CanonicalPng(page) \in renderFiles[path] THEN TRUE
        ELSE IF meta.rendered_pages = None THEN TRUE
        ELSE Len(meta.rendered_pages[1]) < MaxRendered

\* a call of _render_page_png
RenderPngCall ==
    /\ \E path \in DOMAIN pdfs, env \in RenderEnvs :
       \E page \in 1..CountPages(path) :
          /\ RenderedRoom(path, page)
          /\ LET r == RenderPagePng(path, page, renderFiles[path], metaFiles[path], env)
             IN  /\ renderFiles' = [renderFiles EXCEPT ![path] = r.files]
                 /\ metaFiles' = [metaFiles EXCEPT ![path] = r.meta]
                 /\ obs' = [op |-> "render_png", path |-> path, page |-> page,
                            ok |-> r.ok, png |-> r.png, invoked |-> r.invoked]
    /\ UNCHANGED <<pdfs, textFiles, install, fm, appVars>>

\* a call of render_page
RenderPageCall ==
    /\ \E path \in DOMAIN pdfs, env \in RenderEnvs :
       \E page \in 1..CountPages(path) :
          /\ RenderedRoom(path, page)
          /\ LET r == RenderPage(path, page, renderFiles[path], metaFiles[path], env)
             IN  /\ renderFiles' = [renderFiles EXCEPT ![path] = r.files]
                 /\ metaFiles' = [metaFiles EXCEPT ![path] = r.meta]
                 /\ obs' = [op |-> "render_page", path |-> path, page |-> page,
                            invoked |-> r.invoked, png |-> r.png,
                            rastered |-> r.rastered, wez |-> r.wez,
                            chafa |-> r.chafa,
                            tried |-> r.tried, result |-> r.result]
    /\ UNCHANGED <<pdfs, textFiles, install, fm, appVars>>

\* a call of ensure_render_cache with the page count of the document
EnsureCall ==
    /\ \E path \in DOMAIN pdfs, env \in RenderEnvs :
       \E r \in {EnsureRenderCache(path, CountPages(path), renderFiles[path],
                                   metaFiles[path], env)} :
          /\ renderFiles' = [renderFiles EXCEPT ![path] = r.files]
          /\ metaFiles' = [metaFiles EXCEPT ![path] = r.meta]
          /\ obs' = [op |-> "ensure", path |-> path, ok |-> r.ok,
                     invoked |-> r.invoked]
    /\ UNCHANGED <<pdfs, textFiles, install, fm, appVars>>

NextRender == RenderPngCall \/ RenderPageCall \/ EnsureCall

SpecRender == InitRender /\ [][NextRender]_vars

\* C10 (as claimed): a call of _render_page_png that follows a call for the
\* same document and page that returned returns the same path and does not
\* run pdftoppm.
C10_SecondRenderHits ==
    [][(/\ obs.op = "render_png" /\ obs.ok
        /\ obs'.op = "render_png"
        /\ obs'.path = obs.path /\ obs'.page = obs.page)
       => (obs'.ok /\ obs'.png = obs.png /\ ~obs'.invoked)]_vars

(***************************************************************************)
(* Spec: one run of the application on a root directory of two documents,  *)
(* from on_mount on, with the caches empty at the start.                   *)
(***************************************************************************)
\* the root directories the run may start on: the pages of notes.pdf and of
\* report.pdf
Worlds == {<<PagesB, PagesA>>, <<PagesA, PagesB>>, <<PagesC, PagesD>>,
           <<PagesE, PagesE>>, <<PagesD, PagesE>>}

Init ==
    /\ \E w \in Worlds :
          pdfs = (NotesPdf :> [mtime |-> 1, pages |-> w[1]])
                 @@ (ReportPdf :> [mtime |-> 1, pages |-> w[2]])
    /\ metaFiles = [p \in {NotesPdf, ReportPdf} |-> Absent]
    /\ textFiles = [p \in {NotesPdf, ReportPdf} |-> <<>>]
    /\ renderFiles = [p \in {NotesPdf, ReportPdf} |-> {}]
    /\ install = PlainInstall
    /\ fm = FmIdle
    /\ AppInit
    /\ obs = NoObs

\* the one document whose tools fail during the indexing pass, if any
Failings ==
    {[path |-> None, env |-> ToolsWork]}
    \cup {[path |-> Some(p), env |-> e] :
             p \in {NotesPdf, ReportPdf}, e \in ToolEnvs(MaxPages) \ {ToolsWork}}

Here == Position(current_match_index, current_pdf_index, current_page)

\* pdftoppm does not run for the position, or rendered_pages has room
RoomFor(docs, pos) ==
    IF pos.doc = None \/ pos.page = None THEN TRUE
    ELSE RenderedRoom(docs[pos.doc[1] + 1].path, pos.page[1])

\* the navigation handlers with the position assigned only after the page
\* was drawn: a failing render leaves the position where it was
MoveToAfterRender(op, arg, target) ==
    IF target = None
    THEN /\ obs' = [op |-> op, arg |-> arg, before |-> Here, moved |-> FALSE,
                    request |-> None]
         /\ UNCHANGED <<diskVars, fm, appVars>>
    ELSE /\ RoomFor(documents, target[1])
         /\ \E env \in RenderEnvs :
            \E r \in {RenderCurrentPage(documents, target[1], renderFiles,
                                        metaFiles, preview, env)} :
            \E drawn \in {r.request # None /\ r.request[1].result = "ok"} :
            \E pos \in {IF drawn THEN target[1] ELSE Here} :
                   /\ renderFiles' = r.files
                   /\ metaFiles' = r.metas
                   /\ preview' = r.preview
                   /\ obs' = [op |-> op, arg |-> arg, before |-> Here,
                              moved |-> TRUE, request |-> r.request]
                   /\ current_match_index' = pos.match
                   /\ current_pdf_index' = pos.doc
                   /\ current_page' = pos.page
                   /\ status' = StatusText(documents, matches, pos)
         /\ UNCHANGED <<pdfs, textFiles, install, fm, documents, matches, phase>>

\* the common end of the navigation handlers: target is the position the
\* handler moves to, None when it returns without touching anything
MoveTo(op, arg, target) ==
    IF target = None
    THEN /\ obs' = [op |-> op, arg |-> arg, before |-> Here, moved |-> FALSE,
                    request |-> None]
         /\ UNCHANGED <<diskVars, fm, appVars>>
    ELSE /\ RoomFor(documents, target[1])
         /\ \E env \in RenderEnvs :
            \E r \in {RenderCurrentPage(documents, target[1], renderFiles,
                                        metaFiles, preview, env)} :
                   /\ renderFiles' = r.files
                   /\ metaFiles' = r.metas
                   /\ preview' = r.preview
                   /\ obs' = [op |-> op, arg |-> arg, before |-> Here,
                              moved |-> TRUE, request |-> r.request]
         /\ current_match_index' = target[1].match
         /\ current_pdf_index' = target[1].doc
         /\ current_page' = target[1].page
         /\ status' = StatusText(documents, matches, target[1])
         /\ UNCHANGED <<pdfs, textFiles, install, fm, documents, matches, phase>>

\* on_mount and _start_indexing
StartIndexing ==
    /\ phase = "init"
    /\ \E query \in Queries, stdout \in RgaOutputs(DOMAIN pdfs), rgaFails \in BOOLEAN,
          failing \in Failings, env \in RenderEnvs :
          \E candidates \in {FindCandidatePdfs(stdout)} :
          \E r \in {IndexDocuments(candidates, 1, query,
                       [documents |-> <<>>, matches |-> <<>>, indexed |-> <<>>,
                        metas |-> metaFiles, texts |-> textFiles,
                        outcome |-> "running"],
                       failing)} :
          LET target == JumpTarget(r.documents, r.matches, 0)
              shown == RenderCurrentPage(r.documents, target[1], renderFiles,
                                         r.metas, preview, env)
              seen == [op |-> "start_indexing", query |-> query, stdout |-> stdout,
                       rgaFails |-> rgaFails, failing |-> failing]
          IN  IF rgaFails
              THEN /\ phase' = "failed"
                   /\ status' = [kind |-> "Indexing failed"]
                   /\ obs' = seen @@ [outcome |-> "error_rga"]
                   /\ UNCHANGED <<diskVars, documents, matches, current_match_index,
                                  current_pdf_index, current_page, preview>>
              ELSE IF r.outcome # "ok"
              THEN /\ phase' = IF r.outcome = "hang" THEN "hung" ELSE "failed"
                   /\ status' = IF r.outcome = "hang" THEN [kind |-> "Indexing..."]
                                ELSE [kind |-> "Indexing failed"]
                   /\ metaFiles' = r.metas
                   /\ textFiles' = r.texts
                   /\ obs' = seen @@ [outcome |-> r.outcome, candidates |-> candidates]
                   /\ UNCHANGED <<pdfs, renderFiles, install, documents, matches,
                                  current_match_index, current_pdf_index,
                                  current_page, preview>>
              ELSE /\ phase' = "ready"
                   /\ documents' = r.documents
                   /\ matches' = r.matches
                   /\ textFiles' = r.texts
                   /\ obs' = seen @@ [outcome |-> "ok", candidates |-> candidates,
                                      indexed |-> r.indexed,
                                      request |-> IF target = None THEN None
                                                  ELSE shown.request]
                   /\ IF target = None
                      THEN /\ preview' = "No matches found."
                           /\ metaFiles' = r.metas
                           /\ status' = StatusText(r.documents, r.matches, Here)
                           /\ UNCHANGED <<renderFiles, current_match_index,
                                          current_pdf_index, current_page>>
                      ELSE /\ preview' = shown.preview
                           /\ metaFiles' = shown.metas
                           /\ renderFiles' = shown.files
                           /\ current_match_index' = target[1].match
                           /\ current_pdf_index' = target[1].doc
                           /\ current_page' = target[1].page
                           /\ status' = StatusText(r.documents, r.matches, target[1])
                   /\ UNCHANGED <<pdfs, install>>
    /\ UNCHANGED fm

Running == phase \in {"ready", "failed"}

\* _jump_to_match(match_index)
JumpToMatch ==
    /\ Running
    /\ \E match_index \in (-1)..Len(matches) :
          MoveTo("jump_to_match", match_index, JumpTarget(documents, matches, match_index))

\* _next_match
NextMatch ==
    /\ Running
    /\ LET next == NextMatchTarget(matches, Here)
       IN  MoveTo("next_match", 0,
                  IF next = None THEN None ELSE JumpTarget(documents, matches, next[1]))

\* _previous_match
PreviousMatch ==
    /\ Running
    /\ LET prev == PreviousMatchTarget(matches, Here)
       IN  MoveTo("previous_match", 0,
                  IF prev = None THEN None ELSE JumpTarget(documents, matches, prev[1]))

\* _next_page
NextPage ==
    /\ Running
    /\ MoveTo("next_page", 0, NextPageTarget(documents, matches, Here))

\* _previous_page
PreviousPage ==
    /\ Running
    /\ MoveTo("previous_page", 0, PreviousPageTarget(documents, matches, Here))

Next ==
    \/ StartIndexing
    \/ JumpToMatch
    \/ NextMatch
    \/ PreviousMatch
    \/ NextPage
    \/ PreviousPage

Spec == Init /\ [][Next]_vars

\* all three fields of the navigation state are set
Positioned(pos) == pos.match # None /\ pos.doc # None /\ pos.page # None

\* the matches of the documents, one document after the other
RECURSIVE Concatenated(_)
Concatenated(docs) ==
    IF docs = <<>> THEN <<>> ELSE Head(docs).matches \o Concatenated(Tail(docs))

\* the root directory of the end-to-end scenario: report.pdf is A (3 pages,
\* "a" once on page 2), notes.pdf is B (1 page, "a" twice on page 1)
ScenarioRoot ==
    /\ pdfs[ReportPdf].pages = PagesA
    /\ pdfs[NotesPdf].pages = PagesB

MatchA == SearchMatch(ReportPdf, 2, 1, <<"a">>)
MatchB1 == SearchMatch(NotesPdf, 1, 1, <<"a", "a">>)
MatchB2 == SearchMatch(NotesPdf, 1, 2, <<"a", "a">>)
DocA == PdfDoc(ReportPdf, 3, <<MatchA>>)
DocB == PdfDoc(NotesPdf, 1, <<MatchB1, MatchB2>>)

StatusOf(name, page, page_count, k, n) ==
    [kind |-> "position", name |-> name, page |-> page, page_count |-> page_count,
     match_position |-> k, match_count |-> n]

At(m, d, p) == Position(Some(m), Some(d), Some(p))

\* the step is the indexing pass of the scenario: rga lists both files, the
\* query is "a", and the pass succeeds
ScenarioIndexing ==
    /\ ScenarioRoot
    /\ obs'.op = "start_indexing"
    /\ obs'.query = <<"a">>
    /\ Len(obs'.stdout) = 2
    /\ obs'.outcome = "ok"

\* C2 (as claimed): in the scenario discovery returns [A, B], the session
\* holds documents [A, B] and matches [A p2, B p1, B p1]; jumpToMatch(0) then
\* shows A page 2 with status report.pdf, page 2/3, match 1/1; nextPage shows A
\* page 3; nextPage again moves to B page 1; previousMatch returns to flat
\* match 0, A page 2.
C2_ScenarioAsClaimed ==
    [][/\ ScenarioIndexing =>
             /\ obs'.candidates = <<ReportPdf, NotesPdf>>
             /\ documents' = <<DocA, DocB>>
             /\ matches' = <<MatchA, MatchB1, MatchB2>>
       /\ (ScenarioRoot /\ documents = <<DocA, DocB>>) =>
             /\ (obs'.op = "jump_to_match" /\ obs'.arg = 0) =>
                   /\ Here' = At(0, 0, 2)
                   /\ status' = StatusOf(ReportPdf, 2, 3, 1, 1)
             /\ (Here = At(0, 0, 2) /\ obs'.op = "next_page") => Here' = At(0, 0, 3)
             /\ (Here = At(0, 0, 3) /\ obs'.op = "next_page") => Here' = At(1, 1, 1)
             /\ (Here = At(1, 1, 1) /\ obs'.op = "previous_match") => Here' = At(0, 0, 2)
      ]_vars

\* C2 (amended): in the scenario discovery returns [B, A], notes.pdf sorting
\* before report.pdf; the session holds documents [B, A] and matches [B p1, B
\* p1, A p2]; jumpToMatch(0) (also the one the indexing pass ends with) shows B
\* page 1 with status notes.pdf, page 1/1, match 1/2; nextPage moves to A page 2,
\* the page of A's first match, with status report.pdf, page 2/3, match 1/1;
\* nextPage again shows A page 3; previousMatch returns to flat match 1, B
\* page 1.
C2_ScenarioSorted ==
    [][/\ ScenarioIndexing =>
             /\ obs'.candidates = <<NotesPdf, ReportPdf>>
             /\ documents' = <<DocB, DocA>>
             /\ matches' = <<MatchB1, MatchB2, MatchA>>
             /\ Here' = At(0, 0, 1)
             /\ status' = StatusOf(NotesPdf, 1, 1, 1, 2)
       /\ (ScenarioRoot /\ documents = <<DocB, DocA>>) =>
             /\ (obs'.op = "jump_to_match" /\ obs'.arg = 0) =>
                   /\ Here' = At(0, 0, 1)
                   /\ status' = StatusOf(NotesPdf, 1, 1, 1, 2)
             /\ (Here = At(0, 0, 1) /\ obs'.op = "next_page") =>
                   /\ Here' = At(2, 1, 2)
                   /\ status' = StatusOf(ReportPdf, 2, 3, 1, 1)
             /\ (Here = At(2, 1, 2) /\ obs'.op = "next_page") => Here' = At(2, 1, 3)
             /\ (Here = At(2, 1, 3) /\ obs'.op = "previous_match") =>
                   /\ Here' = At(1, 0, 1)
                   /\ status' = StatusOf(NotesPdf, 1, 1, 2, 2)
      ]_vars

\* the last step of the scenario has been taken
C2_Witness ==
    /\ ScenarioRoot
    /\ documents = <<DocB, DocA>>
    /\ obs.op = "previous_match"
    /\ obs.before = At(2, 1, 3)
    /\ Here = At(1, 0, 1)

\* C3: after _next_page from a positioned state: below the document's page
\* count the page is one more and document and match are as before; on the
\* last page of a document that is not the last, the document is the next one
\* and the page is its first match's page (1 if it has no match); on the last
\* page of the last document the position is as before.
C3_NextPage ==
    (obs.op = "next_page" /\ Positioned(obs.before)) =>
        LET b == obs.before
            doc == documents[b.doc[1] + 1]
        IN  IF b.page[1] < doc.page_count
            THEN Here = Position(b.match, b.doc, Some(b.page[1] + 1))
            ELSE IF b.doc[1] < Len(documents) - 1
            THEN LET next == documents[b.doc[1] + 2]
                 IN  /\ current_pdf_index = Some(b.doc[1] + 1)
                     /\ current_page = Some(IF next.matches # <<>>
                                            THEN next.matches[1].page_number ELSE 1)
            ELSE Here = b /\ ~obs.moved

\* _next_page has crossed into a document whose first match is not on page 1
C3_Witness ==
    /\ obs.op = "next_page"
    /\ Positioned(obs.before)
    /\ current_pdf_index = Some(obs.before.doc[1] + 1)
    /\ current_page # Some(1)

\* C4: after _previous_page from a positioned state: above page 1 the page is
\* one less and document and match are as before; on page 1 of a document that
\* is not the first, the document is the previous one and the page is its last
\* match's page (its last page if it has no match); on page 1 of the first
\* document the position is as before.
C4_PreviousPage ==
    (obs.op = "previous_page" /\ Positioned(obs.before)) =>
        LET b == obs.before
        IN  IF b.page[1] > 1
            THEN Here = Position(b.match, b.doc, Some(b.page[1] - 1))
            ELSE IF b.doc[1] > 0
            THEN LET prev == documents[b.doc[1]]
                 IN  /\ current_pdf_index = Some(b.doc[1] - 1)
                     /\ current_page = Some(IF prev.matches # <<>>
                                            THEN prev.matches[Len(prev.matches)].page_number
                                            ELSE prev.page_count)
            ELSE Here = b /\ ~obs.moved

\* _previous_page has crossed into a document whose last match is not on its
\* last page
C4_Witness ==
    /\ obs.op = "previous_page"
    /\ Positioned(obs.before)
    /\ obs.before.doc[1] > 0
    /\ current_pdf_index = Some(obs.before.doc[1] - 1)
    /\ current_page # Some(documents[current_pdf_index[1] + 1].page_count)

\* C5: after _jump_to_match(i): with i < 0 or i >= len(matches) the navigation
\* state is as before and no render request was made; otherwise the current
\* match is i, the current document is the one whose path is the match's path
\* and the current page is the match's page.
C5_JumpToMatch ==
    obs.op = "jump_to_match" =>
        IF obs.arg < 0 \/ obs.arg >= Len(matches)
        THEN Here = obs.before /\ obs.request = None
        ELSE /\ current_match_index = Some(obs.arg)
             /\ current_pdf_index # None
             /\ documents[current_pdf_index[1] + 1].path = matches[obs.arg + 1].pdf_path
             /\ current_page = Some(matches[obs.arg + 1].page_number)
             /\ obs.request # None

\* _jump_to_match was given the index just past the last match while the
\* session was positioned
C5_Witness ==
    /\ obs.op = "jump_to_match"
    /\ matches # <<>>
    /\ obs.arg = Len(matches)
    /\ Positioned(obs.before)

\* C6: after _next_match (_previous_match) from the stored match m: when m is
\* not the last (first) match, the current match is m + 1 (m - 1) and document
\* and page are that match's, wherever the displayed page was; when it is, the
\* navigation state is as before.
C6_MatchStepping ==
    /\ (obs.op = "next_match" /\ obs.before.match # None) =>
          LET m == obs.before.match[1]
          IN  IF m >= Len(matches) - 1 THEN Here = obs.before /\ ~obs.moved
              ELSE /\ current_match_index = Some(m + 1)
                   /\ documents[current_pdf_index[1] + 1].path = matches[m + 2].pdf_path
                   /\ current_page = Some(matches[m + 2].page_number)
    /\ (obs.op = "previous_match" /\ obs.before.match # None) =>
          LET m == obs.before.match[1]
          IN  IF m <= 0 THEN Here = obs.before /\ ~obs.moved
              ELSE /\ current_match_index = Some(m - 1)
                   /\ documents[current_pdf_index[1] + 1].path = matches[m].pdf_path
                   /\ current_page = Some(matches[m].page_number)

\* _next_match has moved on from a match whose page was not the displayed one
C6_Witness ==
    /\ obs.op = "next_match"
    /\ obs.moved
    /\ Positioned(obs.before)
    /\ obs.before.page # Some(matches[obs.before.match[1] + 1].page_number)
    /\ current_match_index = Some(obs.before.match[1] + 1)

\* C7: after an indexing pass that succeeded, every candidate was indexed, in
\* the order of discovery (ascending by path, each file rga listed once);
\* documents are the indexed candidates that have a match, in that order, and
\* matches is the concatenation of the documents' matches.
C7_SessionIndex ==
    (obs.op = "start_indexing" /\ obs.outcome = "ok") =>
        /\ {obs.candidates[i] : i \in 1..Len(obs.candidates)}
              = {obs.stdout[i] : i \in 1..Len(obs.stdout)}
        /\ \A i \in 1..(Len(obs.candidates) - 1) :
              PathLess(obs.candidates[i], obs.candidates[i + 1])
        /\ [i \in 1..Len(obs.indexed) |-> obs.indexed[i].path] = obs.candidates
        /\ documents = SelectSeq(obs.indexed, LAMBDA d : d.matches # <<>>)
        /\ matches = Concatenated(documents)

\* the pass indexed two candidates and kept the one that has matches
C7_Witness ==
    /\ obs.op = "start_indexing"
    /\ obs.outcome = "ok"
    /\ Len(obs.candidates) = 2
    /\ Len(documents) = 1
    /\ Len(matches) >= 2

\* i is the start of a case-insensitive occurrence of needle in text
IsOccurrence(text, needle, i) ==
    /\ i \in 0..(Len(text) - Len(needle))
    /\ \A k \in 1..Len(needle) :
          (IF text[i + k] = "A" THEN "a" ELSE text[i + k])
            = (IF needle[k] = "A" THEN "a" ELSE needle[k])

\* C9: at every point of the literal scan the matches collected so far are
\* case-insensitive occurrences of the query, each starting at or after the
\* previous one's end, with no occurrence skipped between the previous end and
\* the next start; when the scan returns, no occurrence is left after the last
\* end, and "aa" in "aaaa" has given exactly (0,2) and (2,4).
C9_LiteralScan ==
    LET m == fm.matches
        n == Len(fm.needle)
        prevEnd(j) == IF j = 1 THEN 0 ELSE m[j - 1][2]
    IN  /\ \A j \in 1..Len(m) :
             /\ IsOccurrence(fm.text, fm.needle, m[j][1])
             /\ m[j][2] = m[j][1] + n
             /\ m[j][1] >= prevEnd(j)
             /\ \A i \in prevEnd(j)..(m[j][1] - 1) :
                    ~IsOccurrence(fm.text, fm.needle, i)
        /\ fm.pc = "done" =>
             /\ \A i \in prevEnd(Len(m) + 1)..Len(fm.text) :
                    ~IsOccurrence(fm.text, fm.needle, i)
             /\ (fm.text = <<"a", "a", "a", "a">> /\ fm.needle = <<"a", "a">>)
                    => m = <<<<0, 2>>, <<2, 4>>>>

C9_Witness ==
    /\ fm.pc = "done"
    /\ fm.text = <<"a", "A", "a", "a">>
    /\ fm.needle = <<"A", "a">>
    /\ fm.matches = <<<<0, 2>>, <<2, 4>>>>

(***************************************************************************)
(* Backend selection of render_page.                                       *)
(***************************************************************************)
\* a render_page call with no PDFGREPUI_RENDERER whose page image step returned
BackendsChosen ==
    obs.op = "render_page" /\ install.override = "" /\ obs.rastered

C12_NoRendererExactly ==
    (obs.op = "render_page" /\ obs.rastered) =>
        /\ (obs.result = "No renderer available") <=>
              (install.override = "" /\ ~install.wezAvail /\ ~install.chafaAvail)
        /\ (obs.wez = "failed" \/ obs.chafa = "failed") =>
              obs.result # "No renderer available"

(***************************************************************************)
(* Rendering after a navigation step.                                      *)
(***************************************************************************)
NavOps == {"jump_to_match", "next_match", "previous_match", "next_page",
           "previous_page"}

\* where the handler op, called with arg at position pos, moves to by the
\* rules of _jump_to_match, _next_match, _previous_match, _next_page and
\* _previous_page; None when it returns without moving
HandlerTarget(op, arg, pos) ==
    LET step == IF op = "next_match" THEN NextMatchTarget(matches, pos)
                ELSE PreviousMatchTarget(matches, pos)
    IN  IF op = "jump_to_match" THEN JumpTarget(documents, matches, arg)
        ELSE IF op = "next_page" THEN NextPageTarget(documents, matches, pos)
        ELSE IF op = "previous_page" THEN PreviousPageTarget(documents, matches, pos)
        ELSE IF step = None THEN None
        ELSE JumpTarget(documents, matches, step[1])

\* C13: a navigation handler that changes the position asks render_page for
\* the document and page it arrived at, and the position after a handler is
\* the one its rule gives whether that render succeeded or failed (a handler
\* that returns at once leaves the position and asks for nothing).
C13_RenderAfterMove ==
    [][obs'.op \in NavOps =>
         LET target == HandlerTarget(obs'.op, obs'.arg, Here)
         IN  /\ Here' # Here =>
                  /\ obs'.request # None
                  /\ obs'.request[1].path = documents'[current_pdf_index'[1] + 1].path
                  /\ obs'.request[1].page = current_page'[1]
             /\ IF target = None
                THEN Here' = Here /\ obs'.request = None
                ELSE Here' = target[1] /\ obs'.request # None
      ]_vars

\* a handler moved to another position and the render of it failed
C13_Witness ==
    /\ obs.op \in NavOps
    /\ obs.moved /\ obs.before # Here
    /\ obs.request # None /\ obs.request[1].result # "ok"
    /\ preview # "image"

(***************************************************************************)
(* Failures during the indexing pass.                                      *)
(***************************************************************************)
Unset == Position(None, None, None)

\* the indexing pass just run met a failing tool: rga exited with an error, or
\* pdfinfo or pdftotext failed for a candidate the pass got to (with the empty
\* query the pass gets no further than the first page it scans)
IndexingToolFailed ==
    /\ obs.op = "start_indexing"
    /\ \/ obs.rgaFails
       \/ /\ obs.failing.path # None
          /\ LET path == obs.failing.path[1]
                 env == obs.failing.env
                 cands == FindCandidatePdfs(obs.stdout)
             IN  \E k \in 1..Len(cands) :
                    /\ cands[k] = path
                    /\ env.pdfinfoFails \/ env.failPage \in 1..Len(pdfs[path].pages)
                    /\ obs.query = <<>> =>
                          (k = 1 /\ (env.pdfinfoFails \/ env.failPage = 1))

\* C14: when rga, pdfinfo or pdftotext fails during the indexing pass, the
\* session has no documents and no matches, the position is unset and the
\* status reads "Indexing failed"; from then on it stays so and the pass is
\* not run again.
C14_FailureAbortsPass ==
    /\ [](IndexingToolFailed =>
            /\ phase = "failed"
            /\ documents = <<>> /\ matches = <<>>
            /\ Here = Unset
            /\ status.kind = "Indexing failed")
    /\ [][phase = "failed" =>
            /\ phase' = "failed"
            /\ obs'.op # "start_indexing"
            /\ documents' = <<>> /\ matches' = <<>>
            /\ Here' = Unset]_vars

\* pdfinfo failed for the second candidate after the first had been indexed
\* and had matches
C14_Witness ==
    /\ IndexingToolFailed
    /\ obs.outcome = "error_pdfinfo"
    /\ obs.candidates = <<NotesPdf, ReportPdf>>
    /\ obs.failing.path = Some(ReportPdf)
    /\ obs.query = <<"a">>
    /\ pdfs[NotesPdf].pages = PagesB
    /\ metaFiles[NotesPdf] # Absent /\ textFiles[NotesPdf] # <<>>
    /\ phase = "failed"

(***************************************************************************)
(* Corrupt metadata.                                                       *)
(***************************************************************************)
\* C15 (as claimed): index_pdf on a document whose meta file is corrupt or
\* unreadable does not fail on account of the file: load_meta gives the empty
\* entry, the metadata is rebuilt, and when the tools work the call returns
\* and leaves a meta file with the current timestamp and page count.
C15_CorruptMetaIsEmpty ==
    (obs.op = "index_pdf" /\ obs.metaBefore \in {Some(Corrupt(k)) : k \in CorruptKinds}) =>
        /\ obs.outcome # "error_meta"
        /\ obs.loaded = EmptyMeta
        /\ obs.rebuilt
        /\ obs.outcome = "ok" =>
              metaFiles[obs.path] =
                 Some(Meta(Some(pdfs[obs.path].mtime), Some(CountPages(obs.path)), None))

(***************************************************************************)
(* The status line.                                                        *)
(***************************************************************************)
\* the displayed document and the current match, in a positioned state
ShownDoc == documents[current_pdf_index[1] + 1]
CurrentMatch == matches[current_match_index[1] + 1]

\* the 1-based place of the current match among the matches of the displayed
\* document, counted from the flat list: the flat index less the matches of
\* the documents before the displayed one
PlaceInShownDoc ==
    current_match_index[1] + 1
      - Len(Concatenated(SubSeq(documents, 1, current_pdf_index[1])))

\* the page shown is not the page of the current match
PageWandering == current_page[1] # CurrentMatch.page_number

C17_AllOrNothing ==
    /\ [](/\ Here = Unset \/ Positioned(Here)
          /\ Here = Unset <=> matches = <<>>)
    /\ [][(matches = <<>> /\ obs'.op \in NavOps) =>
            /\ UNCHANGED <<appVars, diskVars>>
            /\ obs'.request = None]_vars

\* _jump_to_match(0) was run in the Empty state of a session whose pass
\* found nothing
C17_Witness ==
    /\ phase = "ready" /\ matches = <<>> /\ Here = Unset
    /\ obs.op = "jump_to_match" /\ obs.arg = 0 /\ ~obs.moved

(***************************************************************************)
(* Calls of _extract_page_text on documents that do not change.            *)
(***************************************************************************)
InitExtract ==
    /\ \E w \in Worlds :
          pdfs = (NotesPdf :> [mtime |-> 1, pages |-> w[1]])
                 @@ (ReportPdf :> [mtime |-> 1, pages |-> w[2]])
    /\ metaFiles = [p \in {NotesPdf, ReportPdf} |-> Absent]
    /\ textFiles = [p \in {NotesPdf, ReportPdf} |-> <<>>]
    /\ renderFiles = [p \in {NotesPdf, ReportPdf} |-> {}]
    /\ install = PlainInstall
    /\ fm = FmIdle
    /\ AppInit
    /\ obs = NoObs

\* a call of _extract_page_text for a page of the document; pdftotext fails
\* on the page env.failPage, if any
ExtractCall ==
    /\ \E path \in DOMAIN pdfs, env \in {e \in ToolEnvs(MaxPages) : ~e.pdfinfoFails} :
       \E page \in 1..CountPages(path) :
       \E x \in {ExtractPageText(path, page, textFiles[path], env)} :
          /\ textFiles' = [textFiles EXCEPT ![path] = x.cache]
          /\ obs' = [op |-> "extract", path |-> path, page |-> page,
                     ok |-> x.ok, text |-> x.text, invoked |-> x.invoked]
    /\ UNCHANGED <<pdfs, metaFiles, renderFiles, install, fm, appVars>>

NextExtract == ExtractCall

SpecExtract == InitExtract /\ [][NextExtract]_vars

\* C18: a call of _extract_page_text for a page whose cache file exists returns
\* the file's contents, the empty text included, without running pdftotext and
\* changes no file; a call for a page without a cache file runs pdftotext and,
\* when that succeeds, returns the page's text and leaves it as the page's
\* cache file, other files untouched; when pdftotext fails the call raises
\* and no file is written.  Cache files stay, so pdftotext succeeds at most
\* once per page.
C18_ExtractCaches ==
    [][obs'.op = "extract" =>
         LET path == obs'.path
             page == obs'.page
             before == textFiles[path]
             after == textFiles'[path]
         IN  IF page \in DOMAIN before
             THEN /\ ~obs'.invoked /\ obs'.ok
                  /\ obs'.text = before[page]
                  /\ after = before
             ELSE /\ obs'.invoked
                  /\ IF obs'.ok
                     THEN /\ obs'.text = pdfs[path].pages[page]
                          /\ DOMAIN after = DOMAIN before \cup {page}
                          /\ after[page] = obs'.text
                          /\ \A p \in DOMAIN before : after[p] = before[p]
                     ELSE after = before
      ]_vars

\* the empty second page of the document was extracted once and then served
\* from its cache file; the extraction of page 3 has not succeeded so far
C18_Witness ==
    /\ pdfs[NotesPdf].pages = PagesC
    /\ obs.op = "extract" /\ obs.path = NotesPdf /\ obs.page = 2
    /\ ~obs.invoked /\ obs.ok /\ obs.text = <<>>
    /\ DOMAIN textFiles[NotesPdf] = {2}

(***************************************************************************)
(* rendered_pages and the files of the renders directory.                  *)
(***************************************************************************)
\* C19 (as claimed): every page number listed in rendered_pages of a
\* document's metadata has its file page_<N>.png in the renders directory.
C19_RecordedPagesPresent ==
    \A path \in DOMAIN pdfs :
       LET meta == load_meta(metaFiles[path])
       IN  meta.rendered_pages # None =>
              \A i \in DOMAIN meta.rendered_pages[1] :
                 CanonicalPng(meta.rendered_pages[1][i]) \in renderFiles[path]

(***************************************************************************)
(* The current match and the current document.                             *)
(***************************************************************************)
\* C21: in every positioned state the current match index and the current
\* document index are within their lists and the current match is a match of
\* the current document: the path of documents[current_pdf_index] is the
\* pdf_path of matches[current_match_index], also right after a page step
\* that went from one document to another.
C21_MatchOwnedByDoc ==
    Positioned(Here) =>
        /\ current_match_index[1] \in 0..(Len(matches) - 1)
        /\ current_pdf_index[1] \in 0..(Len(documents) - 1)
        /\ documents[current_pdf_index[1] + 1].path
             = matches[current_match_index[1] + 1].pdf_path

\* a page step has just gone from one document to another
C21_Witness ==
    /\ Positioned(Here)
    /\ obs.op \in {"next_page", "previous_page"}
    /\ obs.moved /\ obs.before.doc # current_pdf_index
    /\ obs.before.match # current_match_index

(***************************************************************************)
(* Termination of the literal scan.                                        *)
(***************************************************************************)
\* C22 (as claimed): the loop of _find_matches ends for every text and
\* query: each iteration either leaves the loop or resumes the search
\* strictly further to the right, so that at most Len(text) + 1 matches are
\* collected before find returns -1.
C22_ScanTerminates ==
    [][fm.pc = "loop" =>
          /\ fm'.pc = "done" \/ fm'.start > fm.start
          /\ Len(fm'.matches) <= Len(fm.text) + 1]_vars

====
